---- MODULE Spec2Model ----
(***************************************************************************)
(* Google Drive -> Box metadata migration tool.                            *)
(*                                                                         *)
(* The module models migrate_metadata (drive-to-box-migration-tool.py)     *)
(* running over a built destination hierarchy (Box.files, a list) and a    *)
(* built source hierarchy (Drive.files, a set), together with the remote   *)
(* metadata store that Box.apply_metadata reads and writes (Spec).        *)
(*                                                                         *)
(* It also models how the two hierarchies are built: the mapping of        *)
(* parents in Box.__init__ and the path generation of Drive.build_drive,   *)
(* with the lookups by path made on the result (SpecBuild); the            *)
(* resolution of root_directory by Box._get_root_folder (SpecRoot); the    *)
(* name normalization of BoxObject (SpecName); and the making of Folder    *)
(* and File objects, with their users, by Drive._build_drive               *)
(* (SpecListing).                                                          *)
(*                                                                         *)
(* On a built hierarchy it models Drive.parse_path, Drive.print_drive and  *)
(* Box.print_box (SpecPrint) and Drive.update_drive (SpecUpdate, and       *)
(* SpecUpdateFair for the sequential execution of the tool).               *)
(***************************************************************************)
EXTENDS Integers, Sequences, FiniteSets, TLC

\* ---------------------------------------------------------------- bounds
MaxBoxFiles == 2
MaxDriveFiles == 2
MaxRuns == 2

\* ------------------------------------------------------------ vocabulary
\* Python's None.
None == "None"

\* Resolved paths the two hierarchies can hold, listed in the order
\* list.sort() gives them.
PathOrder == <<"D:/a.txt", "D:/b.txt">>

Paths == {PathOrder[i] : i \in 1..Len(PathOrder)}

\* Position of a path in the sort order of print_list.
PathRank(p) == CHOOSE i \in 1..Len(PathOrder) : PathOrder[i] = p

\* Path attribute of a node: a resolved path, or None for an orphan.
PathOrNone == Paths \cup {None}

\* Python truthiness of a path attribute (`if box_file.path:`).
Truthy(p) == p # None /\ p # ""

\* Exceptions that leave migrate_metadata.
BoxAPIException == "BoxAPIException"
AttributeError == "AttributeError"

\* What metadata.get() can do: return the stored instance, return None,
\* or raise BoxAPIException (404 when nothing is stored, any other API
\* failure otherwise).
GetOutcomes == {"value", "none", "raise"}

VARIABLES
    box_files,               \* Box.files: list of [id, path]
    drive_files,             \* Drive.files: id -> [path, last_modified_by]
    metadata,                \* remote store: box file id -> instance or <<>>
    run,                     \* number of the current migrate_metadata run
    pc,                      \* "ready" | "walk" | "done" | "aborted"
    test_only,               \* argument of the current run
    print_details,           \* argument of the current run
    todo,                    \* source files the second loop has not visited
    matched_files,
    existing_metadata_files,
    box_missed_files,
    drive_missed_files,
    duplicate_files,
    applied,                 \* box ids apply_metadata was called on this run
    creates,                 \* box ids a metadata.create was issued for this run
    raised,                  \* the exception that ended the run, or None
    raised_at,               \* id of the box file it was raised on, 0 if none
    write_failed,            \* the remote rejected a create during this run
    prev,                    \* outcome of the previous run (history)
    side,                    \* which hierarchy is being built: "box" | "drive"
    root,                    \* Drive.root (the Box root is self.folders[0])
    self_folders,            \* self.folders of the hierarchy being built
    self_files,              \* self.files of the hierarchy being built
    stack,                   \* call stack of the recursive mapping
    phase,                   \* position of the build
    first,                   \* paths the first build gave (history)
    call,                    \* the last call made on the built hierarchy
    users                    \* self.users, the user registry of the Drive

\* The state of migrate_metadata and of the remote metadata store.
migration == <<box_files, drive_files, metadata, run, pc, test_only,
               print_details, todo, matched_files, existing_metadata_files,
               box_missed_files, drive_missed_files, duplicate_files, applied,
               creates, raised, raised_at, write_failed, prev>>

\* The state of a hierarchy build and of the calls made on its result.
tree == <<side, root, self_folders, self_files, stack, phase, first, call,
          users>>

vars == <<box_files, drive_files, metadata, run, pc, test_only, print_details,
          todo, matched_files, existing_metadata_files, box_missed_files,
          drive_missed_files, duplicate_files, applied, creates, raised,
          raised_at, write_failed, prev,
          side, root, self_folders, self_files, stack, phase, first, call,
          users>>

hierarchies == <<box_files, drive_files>>

lists == <<matched_files, existing_metadata_files, box_missed_files,
           drive_missed_files, duplicate_files>>

\* No call has been made on the hierarchy.
NoCall == [op |-> "none"]

\* No build has finished yet.
NoFirst == [done |-> FALSE, paths |-> {}]

\* No hierarchy is being built: the objects handed to migrate_metadata are
\* taken as already built.
NoTree ==
    /\ side = "none"
    /\ root = <<>>
    /\ self_folders = <<>>
    /\ self_files = <<>>
    /\ stack = <<>>
    /\ phase = "idle"
    /\ first = NoFirst
    /\ users = {}
    /\ call = NoCall

\* ------------------------------------------------------- list operations
\* Index of the first element of s equal to x, 0 when there is none.
IndexOf(s, x) ==
    IF \E i \in 1..Len(s) : s[i] = x
    THEN CHOOSE i \in 1..Len(s) : s[i] = x /\ \A j \in 1..(i - 1) : s[j] # x
    ELSE 0

\* Number of entries of s equal to x.
Count(s, x) == Cardinality({i \in 1..Len(s) : s[i] = x})

\* x in s
Contains(s, x) == \E i \in 1..Len(s) : s[i] = x

\* A removal that drops every occurrence of x.
Remove_Every(s, x) == SelectSeq(s, LAMBDA y : y # x)

\* list.remove(x) when x is in the list: drops the first occurrence only.
Remove(s, x) ==
    LET k == IndexOf(s, x)
    IN  [i \in 1..(Len(s) - 1) |-> IF i < k THEN s[i] ELSE s[i + 1]]

\* Insert path p into the sorted list s, after the entries equal to it.
RECURSIVE Insert(_, _)
Insert(s, p) ==
    IF s = <<>> THEN <<p>>
    ELSE IF PathRank(p) < PathRank(Head(s)) THEN <<p>> \o s
    ELSE <<Head(s)>> \o Insert(Tail(s), p)

\* list.sort() of a list of paths.
RECURSIVE Sort(_)
Sort(s) == IF s = <<>> THEN <<>> ELSE Insert(Sort(Tail(s)), Head(s))

\* print_list: sorts the list it is given in place, then prints it.
print_list(list_to_print) == Sort(list_to_print)

\* ----------------------------------------------------------- hierarchies
\* A destination file as the Box build leaves it.
BoxObject(identifier, path) == [id |-> identifier, path |-> path]

\* A source file as the Drive build leaves it; last_modified_by is None
\* when the listing carried no last modifying user.
File(path, last_modified_by) ==
    [path |-> path, last_modified_by |-> last_modified_by]

\* Destination hierarchies: every list of at most MaxBoxFiles files, ids
\* being the positions in the list.
BoxHierarchies ==
    UNION {{[i \in 1..n |-> BoxObject(i, f[i])] : f \in [1..n -> PathOrNone]}
           : n \in 0..MaxBoxFiles}

\* Sort key that makes one representative of each set of source files.
FileKey(f) ==
    2 * (IF f.path = None THEN 0 ELSE PathRank(f.path))
      + (IF f.last_modified_by = None THEN 0 ELSE 1)

\* Source hierarchies: every set of at most MaxDriveFiles files (two files
\* may share a path), one numbering per set.
DriveHierarchies ==
    UNION {{f \in [1..n -> {File(p, u) : p \in PathOrNone, u \in {None, "user"}}] :
                \A i \in 1..(n - 1) : FileKey(f[i]) <= FileKey(f[i + 1])}
           : n \in 0..MaxDriveFiles}

\* The None that get_file_via_path returns, as a file no list holds.
NoFile == BoxObject(0, None)

\* get_file_via_path testing `if file.path` for `if file.path == path`:
\* the first file that has a path at all.
get_file_via_path_AnyPath(files, path) ==
    IF \E i \in 1..Len(files) : Truthy(files[i].path)
    THEN files[CHOOSE i \in 1..Len(files) :
                   /\ Truthy(files[i].path)
                   /\ \A j \in 1..(i - 1) : ~Truthy(files[j].path)]
    ELSE NoFile

\* Box.get_file_via_path: the first file of the list whose path equals the
\* given one, None when there is none.
get_file_via_path(files, path) ==
    IF \E i \in 1..Len(files) : files[i].path = path
    THEN files[CHOOSE i \in 1..Len(files) :
                   /\ files[i].path = path
                   /\ \A j \in 1..(i - 1) : files[j].path # path]
    ELSE NoFile

\* ------------------------------------------------------- metadata sink
\* The remote store holds, per destination file, at most one instance of
\* the legacyData template: <<>> when there is none.
NoInstance == <<>>

\* The instance metadata.create stores for source file d.
Payload(d) ==
    <<[source |-> d,
       legacyLastModifyingUser |-> drive_files[d].last_modified_by]>>

\* Box.apply_metadata(box_file, drive_file) on the remote store meta.
\*   g  : what metadata.get() does
\*   c1 : the remote accepts the create issued in the try block
\*   c2 : the remote accepts the create issued in the except block
\* The remote rejects a create for a file that already has an instance.
\* The payload reads drive_file.last_modified_by.name, which raises
\* AttributeError when the file has no last modifying user.  The method has
\* no return statement: its result is None on every path.
apply_metadata(meta, b, d, g, c1, c2) ==
    LET absent   == meta[b] = NoInstance
        wrote(retried) ==
                    [metadata |-> [meta EXCEPT ![b] = Payload(d)], raised |-> None,
                     creates |-> {b}, rejected |-> retried, result |-> None]
        failed   == [metadata |-> meta, raised |-> BoxAPIException,
                     creates |-> {b}, rejected |-> TRUE, result |-> None]
        noattr   == [metadata |-> meta, raised |-> AttributeError,
                     creates |-> {}, rejected |-> FALSE, result |-> None]
        nothing  == [metadata |-> meta, raised |-> None,
                     creates |-> {}, rejected |-> FALSE, result |-> None]
    IN  IF g = "value" THEN nothing
        ELSE IF drive_files[d].last_modified_by = None THEN noattr
        ELSE IF g = "none" /\ absent /\ c1 THEN wrote(FALSE)
        ELSE IF absent /\ c2 THEN wrote(g = "none")
        ELSE failed

\* metadata.get() can return the instance only when one is stored, and None
\* only when none is.
GetPossible(meta, b, g) ==
    /\ g = "value" => meta[b] # NoInstance
    /\ g = "none" => meta[b] = NoInstance

\* The ways the remote can answer the calls of one apply_metadata, as
\* <<g, c1, c2>>; an answer to a call that is not made is left FALSE.
RemoteAnswers ==
    {a \in GetOutcomes \X BOOLEAN \X BOOLEAN :
        /\ a[1] = "value" => ~a[2] /\ ~a[3]
        /\ a[1] = "raise" => ~a[2]
        /\ a[2] => ~a[3]}

\* No remote call is made.
NoAnswer == <<"value", FALSE, FALSE>>

\* The branch on test_only dropped: the sink is called in every run.
InvokeSink_IgnoresTestOnly(t, meta, b, d, g, c1, c2) ==
    [called |-> {b}] @@ apply_metadata(meta, b, d, g, c1, c2)

\* The branch of migrate_metadata on test_only: the sink is called only in
\* a real run; a dry run touches nothing.
InvokeSink(t, meta, b, d, g, c1, c2) ==
    IF ~t
    THEN [called |-> {b}] @@ apply_metadata(meta, b, d, g, c1, c2)
    ELSE [called |-> {}, metadata |-> meta, raised |-> None,
          creates |-> {}, rejected |-> FALSE, result |-> None]

\* --------------------------------------------------------------- history
\* What is remembered of a run when the tool is started again: how it
\* ended, its lists (sorted) and the remote store it left.
NoRun == [pc |-> "none", test_only |-> FALSE, write_failed |-> FALSE,
          metadata |-> <<>>, matched |-> <<>>,
          existing |-> <<>>, drive_missed |-> <<>>, box_missed |-> <<>>,
          duplicates |-> <<>>]

Outcome == [pc |-> pc, test_only |-> test_only, write_failed |-> write_failed,
            metadata |-> metadata,
            matched |-> Sort(matched_files),
            existing |-> Sort(existing_metadata_files),
            drive_missed |-> Sort(drive_missed_files),
            box_missed |-> Sort(box_missed_files),
            duplicates |-> Sort(duplicate_files)]

\* ------------------------------------------------------------------ Init
Init ==
    /\ box_files \in BoxHierarchies
    /\ drive_files \in DriveHierarchies
    /\ metadata = [b \in 1..Len(box_files) |-> NoInstance]
    /\ run = 1
    /\ pc = "ready"
    /\ test_only = TRUE
    /\ print_details = FALSE
    /\ todo = {}
    /\ matched_files = <<>>
    /\ existing_metadata_files = <<>>
    /\ box_missed_files = <<>>
    /\ drive_missed_files = <<>>
    /\ duplicate_files = <<>>
    /\ applied = {}
    /\ creates = {}
    /\ raised = None
    /\ raised_at = 0
    /\ write_failed = FALSE
    /\ prev = NoRun
    /\ NoTree

\* --------------------------------------------------------------- actions
\* migrate_metadata is entered: the result lists are created and the first
\* loop puts the path of every destination file that has one in
\* box_missed_files.
RECURSIVE BoxPaths(_)
BoxPaths(files) ==
    IF files = <<>> THEN <<>>
    ELSE (IF Truthy(Head(files).path) THEN <<Head(files).path>> ELSE <<>>)
         \o BoxPaths(Tail(files))

StartRun(t, pd) ==
    /\ pc = "ready"
    /\ test_only' = t
    /\ print_details' = pd
    /\ matched_files' = <<>>
    /\ existing_metadata_files' = <<>>
    /\ box_missed_files' = BoxPaths(box_files)
    /\ drive_missed_files' = <<>>
    /\ duplicate_files' = <<>>
    /\ todo' = DOMAIN drive_files
    /\ applied' = {}
    /\ creates' = {}
    /\ raised' = None
    /\ raised_at' = 0
    /\ write_failed' = FALSE
    /\ pc' = "walk"
    /\ UNCHANGED <<hierarchies, metadata, run, prev>>
    /\ UNCHANGED tree

\* The remote answers one iteration of the second loop can meet: those
\* of apply_metadata when the iteration gets that far in a real run.
Answers(d) ==
    LET box_file == get_file_via_path(box_files, drive_files[d].path)
    IN  IF Truthy(drive_files[d].path) /\ box_file # NoFile /\ ~test_only
        THEN {a \in RemoteAnswers : GetPossible(metadata, box_file.id, a[1])}
        ELSE {NoAnswer}

\* One iteration of the second loop, on source file d, the remote
\* answering a.
ProcessDriveFile(d, a) ==
    /\ pc = "walk"
    /\ d \in todo
    /\ a \in Answers(d)
    /\ todo' = todo \ {d}
    /\ LET drive_file == drive_files[d]
           box_file   == get_file_via_path(box_files, drive_file.path)
       IN  IF ~Truthy(drive_file.path)
           THEN UNCHANGED <<metadata, pc, lists, applied, creates, raised,
                            raised_at, write_failed>>
           ELSE IF box_file = NoFile
           THEN /\ drive_missed_files' = Append(drive_missed_files, drive_file.path)
                /\ UNCHANGED <<metadata, pc, matched_files,
                               existing_metadata_files, box_missed_files,
                               duplicate_files, applied, creates, raised,
                               raised_at, write_failed>>
           ELSE LET r == InvokeSink(test_only, metadata, box_file.id, d,
                                    a[1], a[2], a[3])
                IN  /\ metadata' = r.metadata
                    /\ applied' = applied \cup r.called
                    /\ creates' = creates \cup r.creates
                    /\ raised' = r.raised
                    /\ raised_at' = IF r.raised # None THEN box_file.id ELSE 0
                    /\ write_failed' = (write_failed \/ r.rejected)
                    /\ IF r.raised # None
                       THEN /\ pc' = "aborted"
                            /\ UNCHANGED lists
                       ELSE /\ pc' = pc
                            /\ IF ~test_only /\ ~Truthy(r.result)
                               THEN /\ existing_metadata_files' =
                                         Append(existing_metadata_files, drive_file.path)
                                    /\ UNCHANGED matched_files
                               ELSE /\ matched_files' =
                                         Append(matched_files, drive_file.path)
                                    /\ UNCHANGED existing_metadata_files
                            /\ IF Contains(box_missed_files, box_file.path)
                               THEN /\ box_missed_files' =
                                         Remove(box_missed_files, box_file.path)
                                    /\ UNCHANGED duplicate_files
                               ELSE /\ duplicate_files' =
                                         Append(duplicate_files, box_file.path)
                                    /\ UNCHANGED box_missed_files
                            /\ UNCHANGED drive_missed_files
    /\ UNCHANGED <<hierarchies, run, test_only, print_details, prev>>
    /\ UNCHANGED tree

\* The loop is over: with print_details the lists are handed to print_list,
\* which sorts them (existing_metadata_files only in a real run), and the
\* function returns.
Finish ==
    /\ pc = "walk"
    /\ todo = {}
    /\ pc' = "done"
    /\ IF print_details
       THEN /\ matched_files' = print_list(matched_files)
            /\ existing_metadata_files' =
                 IF test_only THEN existing_metadata_files
                 ELSE print_list(existing_metadata_files)
            /\ drive_missed_files' = print_list(drive_missed_files)
            /\ box_missed_files' = print_list(box_missed_files)
            /\ duplicate_files' = print_list(duplicate_files)
       ELSE UNCHANGED lists
    /\ UNCHANGED <<hierarchies, metadata, run, test_only, print_details, todo,
                   applied, creates, raised, raised_at, write_failed, prev>>
    /\ UNCHANGED tree

\* The tool is started again on the same pair of hierarchies.
Rerun ==
    /\ pc \in {"done", "aborted"}
    /\ run < MaxRuns
    /\ run' = run + 1
    /\ prev' = Outcome
    /\ pc' = "ready"
    /\ matched_files' = <<>>
    /\ existing_metadata_files' = <<>>
    /\ box_missed_files' = <<>>
    /\ drive_missed_files' = <<>>
    /\ duplicate_files' = <<>>
    /\ todo' = {}
    /\ applied' = {}
    /\ creates' = {}
    /\ raised' = None
    /\ raised_at' = 0
    /\ write_failed' = FALSE
    /\ UNCHANGED <<hierarchies, metadata, test_only, print_details>>
    /\ UNCHANGED tree

Next ==
    \/ \E t \in BOOLEAN, pd \in BOOLEAN : StartRun(t, pd)
    \/ \E d \in todo, a \in RemoteAnswers : ProcessDriveFile(d, a)
    \/ Finish
    \/ Rerun

Spec == Init /\ [][Next]_vars

\* ======================================================= hierarchy build
\* Names and paths are Python strings.  They are modelled as sequences of
\* one-character strings, so that substring tests and replacements are
\* computed as str does them.
PATH_ROOT == <<"D", ":">>

\* The '/' that joins a parent path and a name.
Slash == <<"/">>

\* A path attribute that holds None (never equal to a string).
NoPath == <<None>>

\* Python truth value of a path attribute: None and '' are false.
PathSet(p) == p # NoPath /\ p # <<>>

\* str.startswith
startswith(s, t) == Len(s) >= Len(t) /\ SubSeq(s, 1, Len(t)) = t

\* `sub in s` for strings
contains(s, sub) ==
    \E i \in 1..(Len(s) - Len(sub) + 1) : SubSeq(s, i, i + Len(sub) - 1) = sub

\* str.replace(old, new) for a non-empty old: every non-overlapping
\* occurrence, found from the left.
RECURSIVE replace(_, _, _)
replace(s, old, new) ==
    IF s = <<>> THEN <<>>
    ELSE IF startswith(s, old)
         THEN new \o replace(SubSeq(s, Len(old) + 1, Len(s)), old, new)
         ELSE <<Head(s)>> \o replace(Tail(s), old, new)

\* The text Box puts in place of '/' in the name of an imported file, and
\* the suffix it adds.
Code002f == <<"0", "0", "2", "f">>
ModifySuffix == <<" ", "-", " ", "M", "o", "d", "i", "f", "y">>

\* BoxObject.__init__, the name: lines 395-398.
NormalizeName(name) ==
    IF contains(name, Code002f)
    THEN replace(replace(name, Code002f, Slash), ModifySuffix, <<>>)
    ELSE name

\* BoxObject.__init__.  parent is the position of the parent object in
\* self.folders, 0 for None.  A parentless object gets the name it was
\* given as its path.
BoxObject_init(identifier, name, parent_id) ==
    [id |-> identifier,
     name |-> NormalizeName(name),
     parent_id |-> parent_id,
     parent |-> 0,
     path |-> IF parent_id = None THEN name ELSE NoPath]

\* BoxObject.set_parent: the object node after set_parent(parent), where
\* parent is the object at position p of self.folders.
set_parent(node, p, parent) ==
    [node EXCEPT
        !.parent = p,
        !.path = (IF PathSet(parent.path) THEN parent.path ELSE parent.name)
                     \o Slash \o node.name]

\* Drive Folder / File as _build_drive makes them (the fields the path
\* generation reads).
DriveItem(identifier, name, parents, path) ==
    [id |-> identifier, name |-> name, parents |-> parents, path |-> path]

\* File.set_path / Folder.set_path
set_path(node, path) == [node EXCEPT !.path = path]

\* `curr_item.id in item.parents`.  parents is the list of parent ids the
\* listing gave, or the string 'root' when it gave none (line 675); an id
\* is never a substring of 'root', and 'root' is written {"root"} here.
IdIn(id, parents) == id \in parents

\* ------------------------------------------------------------- listings
\* Most folders a listing returns, and most files.
MaxFolders == 2
MaxFiles == 1

\* Python's recursion limit (1000 frames), scaled: deeper than any chain
\* of distinct folders of a listing.
RecursionLimit == MaxFolders + 2

\* Id of the root folder of either hierarchy.
RootId == "0"

\* Ids a Box folder search can return, in a fixed order.  The root folder
\* itself is in the search result when root_directory names a sub-folder.
BoxFolderIds == <<"0", "1", "2">>

\* Ids a Drive listing can return for folders (the root is fetched apart).
DriveFolderIds == <<"1", "2", "3">>

\* Ids of the files of a listing.
FileIds == <<"f1", "f2", "f3">>

\* The name the listing gives with each id.
NameOf ==
    [i \in {"0", "1", "2", "3", "f1", "f2", "f3"} |->
        CASE i = "0" -> <<"R">>
          [] i = "1" -> <<"A">>
          [] i = "2" -> <<"B">>
          [] i = "3" -> <<"C">>
          [] i = "f1" -> <<"x">>
          [] i = "f2" -> <<"y">>
          [] i = "f3" -> <<"z">>]

\* box_item.parent: None, or the id of a folder; "9" is a folder the
\* listing does not return.
BoxParents == {None, "0", "1", "2", "9"}

\* result['parents'] of a Drive item, or 'root' when the key is absent.
DriveParents ==
    {{"root"}, {"0"}, {"1"}, {"2"}, {"9"}, {"0", "1"}, {"1", "2"}}

\* The elements of a sequence.
Elements(order) == {order[i] : i \in 1..Len(order)}

\* The raw items with ids S, in the order of `order`, parents given by par.
Items(order, S, par) ==
    LET ids == SelectSeq(order, LAMBDA x : x \in S)
    IN  [i \in 1..Len(ids) |->
            [id |-> ids[i], name |-> NameOf[ids[i]], parent |-> par[ids[i]]]]

\* Every listing of at most n items with distinct ids of `order`.
Listings(order, n, parents) ==
    UNION {{Items(order, S, par) : par \in [S -> parents]} :
           S \in {T \in SUBSET Elements(order) : Cardinality(T) <= n}}

\* Every listing of at most n files: the first ids of FileIds.
FileListings(n, parents) ==
    UNION {{Items(FileIds, {FileIds[i] : i \in 1..k}, par) :
               par \in [{FileIds[i] : i \in 1..k} -> parents]} : k \in 0..n}

\* The migration is not running while a hierarchy is built.
NoMigration ==
    /\ box_files = <<>>
    /\ drive_files = <<>>
    /\ metadata = <<>>
    /\ run = 1
    /\ pc = "idle"
    /\ test_only = TRUE
    /\ print_details = FALSE
    /\ todo = {}
    /\ matched_files = <<>>
    /\ existing_metadata_files = <<>>
    /\ box_missed_files = <<>>
    /\ drive_missed_files = <<>>
    /\ duplicate_files = <<>>
    /\ applied = {}
    /\ creates = {}
    /\ raised = None
    /\ raised_at = 0
    /\ write_failed = FALSE
    /\ prev = NoRun

\* Box.__init__ up to line 243: the root object is made and heads
\* self.folders, and one BoxObject is appended per search result.
BoxListed(folders, files) ==
    /\ side = "box"
    /\ root = <<>>
    /\ self_folders =
         <<BoxObject_init(RootId, PATH_ROOT, None)>> \o
         [i \in 1..Len(folders) |->
             BoxObject_init(folders[i].id, folders[i].name, folders[i].parent)]
    /\ self_files =
         [i \in 1..Len(files) |->
             BoxObject_init(files[i].id, files[i].name, files[i].parent)]

\* Drive._build_drive: the root Folder is made with path PATH_ROOT and is
\* not added to self.folders; one Folder or File is added per result.
\* self.folders and self.files are sets: the sequences give the order in
\* which this process iterates them.
DriveListed(folders, files) ==
    /\ side = "drive"
    /\ root = DriveItem(RootId, NameOf[RootId], {}, PATH_ROOT)
    /\ self_folders =
         [i \in 1..Len(folders) |->
             DriveItem(folders[i].id, folders[i].name, folders[i].parent, NoPath)]
    /\ self_files =
         [i \in 1..Len(files) |->
             DriveItem(files[i].id, files[i].name, files[i].parent, NoPath)]

\* A listing has been retrieved and its objects made; the mapping of
\* parents (Box) or the generation of paths (Drive) is about to start.
InitBuild ==
    /\ NoMigration
    /\ \/ \E folders \in Listings(BoxFolderIds, MaxFolders, BoxParents),
             files \in FileListings(MaxFiles, BoxParents) :
             BoxListed(folders, files)
       \/ \E folders \in Listings(DriveFolderIds, MaxFolders, DriveParents),
             files \in FileListings(MaxFiles, DriveParents) :
             DriveListed(folders, files)
    /\ stack = <<>>
    /\ phase = "listed"
    /\ first = NoFirst
    /\ users = {}
    /\ call = NoCall

\* -------------------------------------------------------- build actions
\* A frame of the recursion: the position in self.folders of the folder
\* being expanded (0 for Drive.root) and the position the loop over
\* self.folders has reached.
Frame(item, next) == [item |-> item, next |-> next]

Top == stack[Len(stack)]

\* The least member of a non-empty set of positions, 0 for the empty set.
Least(S) == IF S = {} THEN 0 ELSE CHOOSE j \in S : \A k \in S : j <= k

\* _map_child_folders, line 150: folder j is a child of folder p.
BoxChild(p, j) ==
    /\ self_folders[j].parent_id # None
    /\ self_folders[j].parent_id = self_folders[p].id

\* The next folder the loop of the top frame finds to be a child, or 0.
BoxNextChild ==
    Least({j \in Top.next..Len(self_folders) : BoxChild(Top.item, j)})

\* Box.__init__, line 246: _map_child_folders is called on the root object.
BoxMapRoot ==
    /\ side = "box"
    /\ phase = "listed"
    /\ stack' = <<Frame(1, 1)>>
    /\ phase' = "map"
    /\ UNCHANGED <<side, root, self_folders, self_files, first, call>>
    /\ UNCHANGED migration
    /\ UNCHANGED users

\* _map_child_folders, lines 149-152: the loop reaches a child of the
\* folder being expanded, sets its parent and calls itself on it.  The
\* call fails with RecursionError when the stack is full, which ends
\* Box.__init__.
BoxMapChild ==
    /\ side = "box"
    /\ phase = "map"
    /\ BoxNextChild # 0
    /\ LET j == BoxNextChild
           p == Top.item
       IN  /\ self_folders' =
                [self_folders EXCEPT ![j] = set_parent(@, p, self_folders[p])]
           /\ IF Len(stack) >= RecursionLimit
              THEN /\ phase' = "RecursionError"
                   /\ UNCHANGED stack
              ELSE /\ stack' = [stack EXCEPT ![Len(stack)].next = j + 1]
                                   \o <<Frame(j, 1)>>
                   /\ UNCHANGED phase
    /\ UNCHANGED <<side, root, self_files, first, call>>
    /\ UNCHANGED migration
    /\ UNCHANGED users

\* _map_child_folders: the loop ends and the call returns; the outermost
\* call returns to Box.__init__.
BoxMapReturn ==
    /\ side = "box"
    /\ phase = "map"
    /\ BoxNextChild = 0
    /\ stack' = SubSeq(stack, 1, Len(stack) - 1)
    /\ phase' = IF Len(stack) = 1 THEN "files" ELSE "map"
    /\ UNCHANGED <<side, root, self_folders, self_files, first, call>>
    /\ UNCHANGED migration
    /\ UNCHANGED users

\* Box.__init__, lines 247-251: every file gets as parent the first
\* folder of self.folders whose id is its parent id.
BoxMapFiles ==
    /\ side = "box"
    /\ phase = "files"
    /\ self_files' =
         [i \in 1..Len(self_files) |->
             LET file == self_files[i]
                 j == Least({k \in 1..Len(self_folders) :
                               /\ file.parent_id # None
                               /\ file.parent_id = self_folders[k].id})
             IN  IF j = 0 THEN file ELSE set_parent(file, j, self_folders[j])]
    /\ phase' = "built"
    /\ UNCHANGED <<side, root, self_folders, stack, first, call>>
    /\ UNCHANGED migration
    /\ UNCHANGED users

\* The folder a frame expands, in a Drive.
Curr(frame) == IF frame.item = 0 THEN root ELSE self_folders[frame.item]

\* _generate_paths, lines 590-601: every file without a path that has
\* curr_item among its parents gets its path.
FilesLoop(files, curr_item) ==
    [i \in 1..Len(files) |->
        IF ~PathSet(files[i].path) /\ IdIn(curr_item.id, files[i].parents)
        THEN set_path(files[i], curr_item.path \o Slash \o files[i].name)
        ELSE files[i]]

\* _generate_paths, line 609: folder j gets its path from curr_item.
DriveChild(curr_item, j) ==
    /\ ~PathSet(self_folders[j].path)
    /\ IdIn(curr_item.id, self_folders[j].parents)

DriveNextChild ==
    Least({j \in Top.next..Len(self_folders) : DriveChild(Curr(Top), j)})

\* build_drive, line 174: _generate_paths() starts in the root and runs
\* its loop over the files.
DriveGeneratePaths ==
    /\ side = "drive"
    /\ phase = "listed"
    /\ self_files' = FilesLoop(self_files, root)
    /\ stack' = <<Frame(0, 1)>>
    /\ phase' = "map"
    /\ UNCHANGED <<side, root, self_folders, first, call>>
    /\ UNCHANGED migration
    /\ UNCHANGED users

\* _generate_paths, lines 603-617: the loop reaches a folder without a
\* path that has curr_item among its parents, sets its path and calls
\* itself on it; the call runs its loop over the files.  (The depth stays
\* below the recursion limit: every call gives one more folder a path.)
DrivePathFolder ==
    /\ side = "drive"
    /\ phase = "map"
    /\ DriveNextChild # 0
    /\ LET j == DriveNextChild
           folder == set_path(self_folders[j],
                              Curr(Top).path \o Slash \o self_folders[j].name)
       IN  /\ self_folders' = [self_folders EXCEPT ![j] = folder]
           /\ self_files' = FilesLoop(self_files, folder)
           /\ stack' = [stack EXCEPT ![Len(stack)].next = j + 1]
                           \o <<Frame(j, 1)>>
    /\ UNCHANGED <<side, root, phase, first, call>>
    /\ UNCHANGED migration
    /\ UNCHANGED users

\* _generate_paths: the loop over the folders ends and the call returns.
DriveReturn ==
    /\ side = "drive"
    /\ phase = "map"
    /\ DriveNextChild = 0
    /\ stack' = SubSeq(stack, 1, Len(stack) - 1)
    /\ phase' = IF Len(stack) = 1 THEN "built" ELSE "map"
    /\ UNCHANGED <<side, root, self_folders, self_files, first, call>>
    /\ UNCHANGED migration
    /\ UNCHANGED users

\* The objects a listing returned for folders, as the build left them (in
\* a Box the root object heads self.folders and is not one of them).
Listed == IF side = "box" THEN Tail(self_folders) ELSE self_folders

\* What a build gave: the path of every object of the listing.
Results ==
    {<<"folder", Listed[i].id, Listed[i].path>> : i \in 1..Len(Listed)}
    \cup {<<"file", self_files[i].id, self_files[i].path>> :
             i \in 1..Len(self_files)}

\* A sequence taken in another order.
Permute(s, pi) == [i \in 1..Len(s) |-> s[pi[i]]]

\* The object as its constructor made it, before any parent or path was
\* set.
Fresh(node) ==
    IF side = "box" THEN BoxObject_init(node.id, node.name, node.parent_id)
    ELSE set_path(node, NoPath)

\* The tool is started again and the backend returns the same objects in
\* another order (Box), or the sets are iterated in another order (Drive).
Rebuild ==
    /\ phase = "built"
    /\ ~first.done
    /\ call = NoCall
    /\ \E pi \in Permutations(1..Len(Listed)),
          rho \in Permutations(1..Len(self_files)) :
          /\ \/ \E i \in 1..Len(Listed) : pi[i] # i
             \/ \E i \in 1..Len(self_files) : rho[i] # i
          /\ LET folders == Permute([i \in 1..Len(Listed) |-> Fresh(Listed[i])], pi)
             IN  self_folders' = IF side = "box"
                                 THEN <<Fresh(self_folders[1])>> \o folders
                                 ELSE folders
          /\ self_files' =
               Permute([i \in 1..Len(self_files) |-> Fresh(self_files[i])], rho)
    /\ first' = [done |-> TRUE, paths |-> Results]
    /\ phase' = "listed"
    /\ stack' = <<>>
    /\ UNCHANGED <<side, root, call>>
    /\ UNCHANGED migration
    /\ UNCHANGED users

\* A lookup that also takes an object without a path for a match.
first_via_path_OrUnset(nodes, path) ==
    Least({i \in 1..Len(nodes) :
              nodes[i].path = path \/ nodes[i].path = NoPath})

\* A lookup that takes a path that starts with the argument for a match.
first_via_path_Prefix(nodes, path) ==
    Least({i \in 1..Len(nodes) :
              nodes[i].path # NoPath /\ startswith(nodes[i].path, path)})

\* Box.get_file_via_path, Drive.get_file_via_path, Drive.get_folder_via_path:
\* the position of the first object of the collection whose path is equal
\* to the argument, 0 when the loop ends without one (None is returned).
first_via_path(nodes, path) ==
    Least({i \in 1..Len(nodes) : nodes[i].path = path})

\* The paths the lookups are called with: every path of the hierarchy,
\* the path of the root, and a path nothing has.
LookupPaths ==
    {self_folders[i].path : i \in {k \in 1..Len(self_folders) :
                                      PathSet(self_folders[k].path)}}
    \cup {self_files[i].path : i \in {k \in 1..Len(self_files) :
                                         PathSet(self_files[k].path)}}
    \cup {PATH_ROOT, PATH_ROOT \o Slash \o <<"q">>}

\* A lookup is made on the built hierarchy; logger is whether a logger is
\* passed.  A Box has no folder lookup.  Drive.get_folder_via_path calls
\* logger.error without testing logger when it finds nothing, the file
\* lookups test it first.
Lookup(kind, path, logger) ==
    /\ phase = "built"
    /\ ~first.done
    /\ kind = "folder" => side = "drive"
    /\ LET result == first_via_path(IF kind = "file" THEN self_files
                                    ELSE self_folders, path)
       IN  call' = [op |-> "via_path", kind |-> kind, path |-> path,
                    logger |-> logger,
                    result |-> result,
                    raised |-> IF kind = "folder" /\ result = 0 /\ ~logger
                               THEN AttributeError ELSE None,
                    logged |-> logger /\ result = 0]
    /\ UNCHANGED <<side, root, self_folders, self_files, stack, phase, first>>
    /\ UNCHANGED migration
    /\ UNCHANGED users

\* The loggers the callers pass: the Drive methods are always given one
\* (update_drive and update_info use theirs unconditionally and pass it
\* on), Box.get_file_via_path is also called with logger=None.
Loggers(kind) == IF kind = "folder" THEN {TRUE} ELSE BOOLEAN

NextBuild ==
    \/ BoxMapRoot
    \/ BoxMapChild
    \/ BoxMapReturn
    \/ BoxMapFiles
    \/ DriveGeneratePaths
    \/ DrivePathFolder
    \/ DriveReturn
    \/ Rebuild
    \/ \E kind \in {"file", "folder"}, path \in LookupPaths :
          \E logger \in Loggers(kind) : Lookup(kind, path, logger)

SpecBuild == InitBuild /\ [][NextBuild]_vars

\* ============================================================ properties
\* Number of destination files whose path is p.
NBox(p) == Cardinality({i \in 1..Len(box_files) : box_files[i].path = p})

\* Number of source files whose path is p.
NDrive(p) == Cardinality({d \in DOMAIN drive_files : drive_files[d].path = p})

\* Source files the second loop of the current run has visited.
Visited == IF pc = "ready" THEN {} ELSE DOMAIN drive_files \ todo

\* The paths a list holds.
Range(s) == {s[i] : i \in 1..Len(s)}

\* C1: when the destination holds two files with path p and the source
\* exactly one, the run ends with exactly one p in the duplicate list and
\* exactly one p in the matched list.
C1_DuplicateDetection ==
    \A p \in Paths :
        (pc = "done" /\ NBox(p) = 2 /\ NDrive(p) = 1)
            => /\ Count(duplicate_files, p) = 1
               /\ Count(matched_files, p) = 1

\* C2: an iteration that matches a destination path no longer in
\* box_missed_files records the path as a duplicate and adds nothing to
\* matched_files.
C2_DuplicateInsteadOfMatch ==
    [][\A d \in DOMAIN drive_files :
          LET p == drive_files[d].path
          IN  (/\ pc = "walk" /\ pc' = "walk"
               /\ d \in todo /\ todo' = todo \ {d}
               /\ Truthy(p)
               /\ get_file_via_path(box_files, p) # NoFile
               /\ ~Contains(box_missed_files, p))
                  => /\ duplicate_files' = Append(duplicate_files, p)
                     /\ matched_files' = matched_files]_vars

\* C3: when the run ends, no path occurs in two of matched_files,
\* drive_missed_files, box_missed_files and duplicate_files.
C3_ListsDisjoint ==
    pc = "done" =>
        /\ Range(matched_files) \cap Range(drive_missed_files) = {}
        /\ Range(matched_files) \cap Range(box_missed_files) = {}
        /\ Range(matched_files) \cap Range(duplicate_files) = {}
        /\ Range(drive_missed_files) \cap Range(box_missed_files) = {}
        /\ Range(drive_missed_files) \cap Range(duplicate_files) = {}
        /\ Range(box_missed_files) \cap Range(duplicate_files) = {}

\* C4: when the run ends, a path is in box_missed_files exactly when some
\* destination file has it and no source file has it.
C4_BoxMissedExact ==
    pc = "done" =>
        \A p \in Paths :
            Contains(box_missed_files, p) <=> (NBox(p) > 0 /\ NDrive(p) = 0)

\* Number of visited source files whose path is p.
NVisited(p) == Cardinality({d \in Visited : drive_files[d].path = p})

\* C5: a source file whose path no destination file has is in
\* drive_missed_files once the loop has visited it and never in
\* matched_files or existing_metadata_files; a destination file whose path
\* no source file has is in box_missed_files throughout the walk and at its
\* end.
C5_MissClassification ==
    pc # "ready" =>
        /\ \A p \in Paths :
               NBox(p) = 0 =>
                   /\ ~Contains(matched_files, p)
                   /\ ~Contains(existing_metadata_files, p)
                   /\ Count(drive_missed_files, p) = NVisited(p)
        /\ \A p \in Paths :
               (NBox(p) > 0 /\ NDrive(p) = 0) => Contains(box_missed_files, p)

\* A finished real run over a source-only file and a destination-only file.
C5_Witness ==
    /\ pc = "done"
    /\ ~test_only
    /\ \E p \in Paths : NDrive(p) > 0 /\ NBox(p) = 0 /\ Contains(drive_missed_files, p)
    /\ \E p \in Paths : NBox(p) > 0 /\ NDrive(p) = 0 /\ Contains(box_missed_files, p)

\* C6: a failure of the remote write in apply_metadata does not end the
\* run: no run is aborted by the sink's BoxAPIException.
C6_SinkFailureDoesNotAbort ==
    ~(pc = "aborted" /\ raised = BoxAPIException /\ write_failed)

\* C7: in a run with test_only the sink is never invoked (no call of
\* apply_metadata, no create, nothing raised), and the run still matches:
\* at its end every source file with a path is in matched_files when a
\* destination file has its path and in drive_missed_files otherwise.
C7_DryRunNeverCallsSink ==
    (test_only /\ pc # "ready") =>
        /\ applied = {}
        /\ creates = {}
        /\ pc # "aborted"
        /\ metadata = (IF run = 1 THEN [b \in 1..Len(box_files) |-> NoInstance]
                       ELSE prev.metadata)
        /\ pc = "done" =>
               \A p \in Paths :
                   /\ Count(matched_files, p) = (IF NBox(p) > 0 THEN NDrive(p) ELSE 0)
                   /\ Count(drive_missed_files, p) = (IF NBox(p) > 0 THEN 0 ELSE NDrive(p))

\* A finished dry run that matched a file.
C7_Witness ==
    /\ pc = "done"
    /\ test_only
    /\ matched_files # <<>>
    /\ applied = {}

\* C8: a dry run and a real run over the same hierarchies, both run to the
\* end, report the same number of matched, source-missed,
\* destination-missed and duplicate paths.
C8_DryRunSameCounts ==
    (run > 1 /\ pc = "done" /\ prev.pc = "done" /\ prev.test_only # test_only) =>
        /\ Len(matched_files) = Len(prev.matched)
        /\ Len(drive_missed_files) = Len(prev.drive_missed)
        /\ Len(box_missed_files) = Len(prev.box_missed)
        /\ Len(duplicate_files) = Len(prev.duplicates)

\* C9: in a real run that starts with an instance already stored for a
\* destination file, no create is issued for that file, its instance stays
\* what it was, and no exception is raised on it.
C9_IdempotentWrite ==
    \A b \in 1..Len(box_files) :
        (run > 1 /\ pc # "ready" /\ ~test_only /\ prev.metadata[b] # NoInstance) =>
            /\ b \notin creates
            /\ metadata[b] = prev.metadata[b]
            /\ raised_at # b

\* C10: two real runs in a row, the destination starting without metadata
\* and no write failing: the first run has every file it wrote metadata for
\* in matched_files, the second has each of those in
\* existing_metadata_files, and both match the same number of files.
C10_SecondRunAlreadyPresent ==
    (/\ run = 2 /\ pc = "done" /\ ~test_only /\ ~write_failed
     /\ prev.pc = "done" /\ ~prev.test_only /\ ~prev.write_failed) =>
        /\ \A b \in 1..Len(box_files) :
               prev.metadata[b] # NoInstance =>
                   Contains(prev.matched, drive_files[prev.metadata[b][1].source].path)
        /\ \A p \in Range(prev.matched) : Contains(existing_metadata_files, p)
        /\ Len(matched_files) + Len(existing_metadata_files)
               = Len(prev.matched) + Len(prev.existing)

\* ------------------------------------------------ hierarchy properties
\* Every object of the hierarchy: the root, the folders and the files.
Nodes ==
    {self_folders[i] : i \in 1..Len(self_folders)}
    \cup {self_files[i] : i \in 1..Len(self_files)}
    \cup (IF side = "drive" THEN {root} ELSE {})

\* The parents of an object in the hierarchy: in a Box the object its
\* parent attribute refers to, in a Drive the root and the folders whose
\* id is among its parent ids.
ParentsOf(n) ==
    IF side = "box"
    THEN IF n.parent = 0 THEN {} ELSE {self_folders[n.parent]}
    ELSE {p \in {root} \cup {self_folders[i] : i \in 1..Len(self_folders)} :
             p.id \in n.parents}

\* C11: after a tree build, every node that has a path and a parent has
\* as path the path of its parent, "/" and its own name.
C11_PathDerivation ==
    phase = "built" =>
        \A n \in Nodes :
            n.path # NoPath /\ ParentsOf(n) # {} =>
                \E p \in ParentsOf(n) :
                    /\ p.path # NoPath
                    /\ n.path = p.path \o Slash \o n.name

\* The parent ids the listing gave for an object.
ParentIdsOf(n) ==
    IF side = "box"
    THEN IF n.parent_id = None THEN {} ELSE {n.parent_id}
    ELSE n.parents

\* The ids whose chain of parents reaches the root in at most k steps.
RECURSIVE ReachedIds(_)
ReachedIds(k) ==
    IF k = 0 THEN {RootId}
    ELSE LET R == ReachedIds(k - 1)
         IN  R \cup {Listed[i].id :
                        i \in {j \in 1..Len(Listed) :
                                  ParentIdsOf(Listed[j]) \cap R # {}}}

\* The chain of parents of an object of the listing reaches the root.
ReachesRoot(n) == ParentIdsOf(n) \cap ReachedIds(Len(Listed)) # {}

\* The objects of the listing, as the build left them.
ListedNodes ==
    {Listed[i] : i \in 1..Len(Listed)}
    \cup {self_files[i] : i \in 1..Len(self_files)}

\* C12: a node whose chain of parents does not reach the built root ends
\* the build without a path (a file under a folder that has no path, or a
\* file without any parent, in particular).
C12_UnreachedHasNoPath ==
    phase = "built" =>
        \A n \in ListedNodes : ~ReachesRoot(n) => n.path = NoPath

\* The ids of the objects of the hierarchy that can be a parent.
TreeIds == {RootId} \cup {Listed[i].id : i \in 1..Len(Listed)}

\* An object whose parent ids all refer to objects the listing lacks.
Orphan(n) == ParentIdsOf(n) # {} /\ ParentIdsOf(n) \cap TreeIds = {}

\* The object a lookup returned.
Returned ==
    IF call.kind = "file" THEN self_files[call.result]
    ELSE self_folders[call.result]

\* C13: an object whose parent ids are all absent from the listing never
\* has a path, and no lookup by a path string returns it.
C13_OrphanExclusion ==
    /\ \A n \in ListedNodes : Orphan(n) => n.path = NoPath
    /\ call.op = "via_path" /\ call.result # 0 => ~Orphan(Returned)

\* A file lookup was made on a built hierarchy that holds an orphaned file
\* and an orphaned folder, and it returned None.
C13_Witness ==
    /\ phase = "built"
    /\ \E i \in 1..Len(self_files) : Orphan(self_files[i])
    /\ \E i \in 1..Len(Listed) : Orphan(Listed[i])
    /\ call.op = "via_path"
    /\ call.kind = "file"
    /\ call.result = 0

\* C14: building the hierarchy from the same objects taken in any other
\* order gives every object the same path as the first build did.
C14_OrderIndependence ==
    phase = "built" /\ first.done => Results = first.paths

\* The root object of the hierarchy.
TheRoot == IF side = "box" THEN self_folders[1] ELSE root

\* C15: after a build exactly one node has a path and no parent, the root,
\* and its path is the path prefix.
C15_ExactlyOneRoot ==
    phase = "built" =>
        /\ {n \in Nodes : n.path # NoPath /\ ParentsOf(n) = {}} = {TheRoot}
        /\ TheRoot.path = PATH_ROOT

\* ====================================================== root resolution
\* str.split('/')
RECURSIVE split(_)
split(s) ==
    LET i == Least({k \in 1..Len(s) : s[k] = "/"})
    IN  IF i = 0 THEN <<s>>
        ELSE <<SubSeq(s, 1, i - 1)>> \o split(SubSeq(s, i + 1, Len(s)))

\* An item of the backend, as get_items returns it.
BoxItem(identifier, type, name) ==
    [id |-> identifier, type |-> type, name |-> name]

\* The items a backend may hold in its root folder '0', and in folder A.
TopItems ==
    {BoxItem("1", "folder", <<"A">>), BoxItem("f1", "file", <<"A">>),
     BoxItem("2", "folder", <<"B">>)}

SubItems == {BoxItem("3", "folder", <<"B">>), BoxItem("f2", "file", <<"B">>)}

\* Every order in which get_items can return some of the items of S.
Orders(S) ==
    UNION {{s \in [1..n -> S] : \A i, j \in 1..n : i # j => s[i] # s[j]} :
           n \in 0..Cardinality(S)}

\* The backends: folder id -> the items get_items returns for it.
Backends ==
    {[i \in {"0", "1", "2", "3"} |->
         IF i = "0" THEN top ELSE IF i = "1" THEN sub ELSE <<>>] :
     top \in Orders(TopItems), sub \in Orders(SubItems)}

\* The root_directory arguments: None (NoPath), and strings with and
\* without the path prefix.
RootDirectories ==
    {NoPath, <<>>, <<"A">>, <<"B">>, <<"A", "/">>, <<"A", "/", "B">>,
     <<"D", ":">>, <<"D", ":", "/", "A">>,
     <<"D", ":", "/", "A", "/", "B">>}

\* _get_root_folder, line 282: the item is the folder the segment names.
IsSegment_AnyType(box_item, path_item) == box_item.name = path_item

IsSegment(box_item, path_item) ==
    box_item.type = "folder" /\ box_item.name = path_item

\* _get_root_folder, lines 275-277: the segments that are walked.
paths_of(root_directory) ==
    split(IF startswith(root_directory, PATH_ROOT)
          THEN replace(root_directory, PATH_ROOT \o Slash, <<>>)
          ELSE root_directory)

\* Box.__init__ is entered with a connected client and a root_directory.
InitRoot ==
    /\ NoMigration
    /\ side = "box"
    /\ root = <<>>
    /\ self_folders = <<>>
    /\ self_files = <<>>
    /\ stack = <<>>
    /\ phase = "connected"
    /\ first = NoFirst
    /\ users = {}
    /\ \E client \in Backends, root_directory \in RootDirectories :
          call = [op |-> "_get_root_folder", client |-> client,
                  root_directory |-> root_directory, paths |-> <<>>,
                  current_folder |-> RootId]

\* _get_root_folder, lines 272-277: the walk starts at folder '0'; without
\* a root_directory that folder is returned.
GetRootFolder ==
    /\ phase = "connected"
    /\ IF call.root_directory = NoPath
       THEN /\ phase' = "resolved"
            /\ UNCHANGED call
       ELSE /\ phase' = "walk"
            /\ call' = [call EXCEPT !.paths = paths_of(call.root_directory)]
    /\ UNCHANGED <<side, root, self_folders, self_files, stack, first>>
    /\ UNCHANGED migration
    /\ UNCHANGED users

\* _get_root_folder, lines 278-288: one round of the loop over the
\* segments.  The first item of the current folder that is the folder
\* the segment names becomes the current folder; without one
\* FileNotFoundError is raised.  After the last segment the current
\* folder is returned.
WalkSegment ==
    /\ phase = "walk"
    /\ LET box_items == call.client[call.current_folder]
           j == Least({k \in 1..Len(box_items) :
                          IsSegment(box_items[k], Head(call.paths))})
       IN  IF j = 0
           THEN /\ phase' = "FileNotFoundError"
                /\ UNCHANGED call
           ELSE /\ call' = [call EXCEPT !.current_folder = box_items[j].id,
                                        !.paths = Tail(call.paths)]
                /\ phase' = IF Len(call.paths) = 1 THEN "resolved" ELSE "walk"
    /\ UNCHANGED <<side, root, self_folders, self_files, stack, first>>
    /\ UNCHANGED migration
    /\ UNCHANGED users

\* Box.__init__, lines 196-200: the root object is made for the folder
\* _get_root_folder returned.
MakeRoot ==
    /\ phase = "resolved"
    /\ self_folders' = <<BoxObject_init(call.current_folder, PATH_ROOT, None)>>
    /\ self_files' = <<>>
    /\ phase' = "rooted"
    /\ UNCHANGED <<side, root, stack, first, call>>
    /\ UNCHANGED migration
    /\ UNCHANGED users

NextRoot == GetRootFolder \/ WalkSegment \/ MakeRoot

SpecRoot == InitRoot /\ [][NextRoot]_vars

\* The folders reached from the folders of S by one child folder named seg.
ChildFolders(S, seg) ==
    UNION {{call.client[s][k].id :
               k \in {m \in 1..Len(call.client[s]) :
                         /\ call.client[s][m].type = "folder"
                         /\ call.client[s][m].name = seg}} : s \in S}

\* The folders reached from the backend root along a chain of child
\* folders named by the segments, in order.
RECURSIVE Resolve(_, _)
Resolve(S, segs) ==
    IF segs = <<>> THEN S ELSE Resolve(ChildFolders(S, Head(segs)), Tail(segs))

\* The walk has ended, with a folder or with the error.
Walked == phase \in {"resolved", "rooted", "FileNotFoundError"}

\* What the claim of root resolution asks of a walk along segs.
RootResolved(segs) ==
    /\ Walked /\ call.root_directory = NoPath =>
           phase # "FileNotFoundError" /\ call.current_folder = RootId
    /\ Walked /\ call.root_directory # NoPath =>
           IF Resolve({RootId}, segs) = {}
           THEN phase = "FileNotFoundError"
           ELSE /\ phase # "FileNotFoundError"
                /\ call.current_folder \in Resolve({RootId}, segs)
    /\ phase = "FileNotFoundError" => self_folders = <<>> /\ self_files = <<>>
    /\ self_folders # <<>> => phase = "rooted"

\* C16: _get_root_folder walks the segments of root_directory from the
\* backend root through child folders of those names; it raises
\* FileNotFoundError when a segment has no such child folder, before any
\* node is made, and returns the backend root without a root_directory.
C16_RootResolution ==
    RootResolved(IF call.root_directory = NoPath THEN <<>>
                 ELSE split(call.root_directory))

\* C16 (amended): the segments walked are those of root_directory with the
\* path prefix taken off: when root_directory starts with the path prefix,
\* every "<prefix>/" in it is removed before it is split at "/".
C16_RootResolutionAfterPrefix ==
    RootResolved(IF call.root_directory = NoPath THEN <<>>
                 ELSE split(IF startswith(call.root_directory, PATH_ROOT)
                            THEN replace(call.root_directory,
                                         PATH_ROOT \o Slash, <<>>)
                            ELSE call.root_directory))

\* A root_directory with the prefix and two segments was resolved to the
\* sub-folder although the backend root holds a file of the first name
\* ahead of the folder, and the root object was made for it.
C16_Witness ==
    /\ phase = "rooted"
    /\ call.root_directory = <<"D", ":", "/", "A", "/", "B">>
    /\ call.client["0"][1].type = "file"
    /\ self_folders[1].id = "3"

\* ==================================================== name normalization
\* Most pieces a raw name is made of.
MaxFragments == 4

\* The pieces raw names are made of.
Fragments ==
    {<<"a">>, Code002f, ModifySuffix, <<"0", "0">>, <<"2", "f">>}

\* The pieces of a sequence of pieces, joined.
RECURSIVE Join(_)
Join(fs) == IF fs = <<>> THEN <<>> ELSE Head(fs) \o Join(Tail(fs))

\* The raw names a backend may give.
RawNames ==
    UNION {{Join(fs) : fs \in [1..n -> Fragments]} : n \in 0..MaxFragments}

\* An object is about to be made from a raw name, under the root object
\* or without a parent.
InitName ==
    /\ NoMigration
    /\ side = "box"
    /\ root = <<>>
    /\ self_folders = <<BoxObject_init(RootId, PATH_ROOT, None)>>
    /\ self_files = <<>>
    /\ stack = <<>>
    /\ phase = "raw"
    /\ first = NoFirst
    /\ users = {}
    /\ \E name \in RawNames, parent_id \in {None, RootId} :
          call = [op |-> "BoxObject", name |-> name, parent_id |-> parent_id]

\* Box.__init__, lines 215-217: a BoxObject is made for a search result.
MakeObject ==
    /\ phase = "raw"
    /\ self_files' = <<BoxObject_init("f1", call.name, call.parent_id)>>
    /\ phase' = "made"
    /\ UNCHANGED <<side, root, self_folders, stack, first, call>>
    /\ UNCHANGED migration
    /\ UNCHANGED users

\* Box.__init__, lines 247-251, for this object: its parent is set.
SetParent ==
    /\ phase = "made"
    /\ self_files[1].parent_id # None
    /\ self_files[1].parent_id = self_folders[1].id
    /\ self_files' = <<set_parent(self_files[1], 1, self_folders[1])>>
    /\ phase' = "parented"
    /\ UNCHANGED <<side, root, self_folders, stack, first, call>>
    /\ UNCHANGED migration
    /\ UNCHANGED users

\* A BoxObject is made from the name of the object, which has been
\* normalized already.
MakeAgain ==
    /\ phase \in {"made", "parented"}
    /\ self_files' =
         self_files \o <<BoxObject_init("f2", self_files[1].name, call.parent_id)>>
    /\ phase' = "again"
    /\ UNCHANGED <<side, root, self_folders, stack, first, call>>
    /\ UNCHANGED migration
    /\ UNCHANGED users

NextName == MakeObject \/ SetParent \/ MakeAgain

SpecName == InitName /\ [][NextName]_vars

\* str.endswith
endswith(s, t) ==
    Len(s) >= Len(t) /\ SubSeq(s, Len(s) - Len(t) + 1, Len(s)) = t

\* The name the claim of normalization asks for: every 002f turned into
\* "/" and a " - Modify" at the end taken off, for a name that holds 002f.
Normalized(name) ==
    IF ~contains(name, Code002f) THEN name
    ELSE LET n == replace(name, Code002f, Slash)
         IN  IF endswith(n, ModifySuffix)
             THEN SubSeq(n, 1, Len(n) - Len(ModifySuffix))
             ELSE n

\* C17: the name of an object is the raw name with every 002f replaced by
\* "/" and only a trailing " - Modify" removed when the raw name holds
\* 002f, the raw name otherwise; and the path of the object ends with
\* that name.
C17_NameNormalization ==
    phase # "raw" =>
        LET node == self_files[1]
        IN  /\ node.name = Normalized(call.name)
            /\ node.path # NoPath =>
                   node.path = IF node.parent = 0 THEN node.name
                               ELSE self_folders[node.parent].path
                                        \o Slash \o node.name

\* C18: an object made from a normalized name has that same name.
C18_NormalizationIdempotent ==
    phase = "again" => self_files[2].name = self_files[1].name

\* ======================================================= drive listing
\* result['mimeType'] of a listed object.
FolderMime == "application/vnd.google-apps.folder"
DocumentMime == "application/vnd.google-apps.document"
SpreadsheetMime == "application/vnd.google-apps.spreadsheet"
PresentationMime == "application/vnd.google-apps.presentation"
PdfMime == "application/pdf"

MimeTypes ==
    {FolderMime, DocumentMime, SpreadsheetMime, PresentationMime, PdfMime}

\* result['name'] of a listed object: a stem with or without an extension.
ListedNames ==
    {<<"R">> \o ext :
        ext \in {<<>>, <<".", "d", "o", "c">>, <<".", "d", "o", "c", "x">>,
                 <<".", "x", "l", "s">>, <<".", "x", "l", "s", "x">>,
                 <<".", "p", "p", "t">>, <<".", "p", "p", "t", "x">>,
                 <<".", "p", "d", "f">>}}

\* The accounts of the domain, and the display name of each.
Emails == {"ann@x", "bob@x"}

DisplayName == [e \in Emails |-> IF e = "ann@x" THEN "Ann" ELSE "Bob"]

\* User.__init__: a new object; obj is its identity, the number of User
\* objects made before it plus one (the class defines no equality, so two
\* users made from the same name and email are different objects).
User(name, email, obj) == [name |-> name, email |-> email, obj |-> obj]

\* None where a User is expected.
NoUser == [name |-> None, email |-> None, obj |-> 0]

\* Drive.get_user_emails.
get_user_emails(registry) == {u.email : u \in registry}

\* Drive.add_user: the user joins the registry when his email is new.
add_user(registry, user) ==
    IF user.email \notin get_user_emails(registry)
    THEN registry \cup {user}
    ELSE registry

\* One object of the response of files().list; lastModifyingUser is None
\* when the response carries none.
DriveResult(identifier, name, mimeType, parents, owner, lastModifyingUser) ==
    [id |-> identifier, name |-> name, mimeType |-> mimeType,
     parents |-> parents, owner |-> owner,
     lastModifyingUser |-> lastModifyingUser]

\* The responses: a folder A in the root or none, then one more object.
DriveResponses ==
    {pre \o <<DriveResult("f1", name, mimeType, parents, owner, modifier)>> :
        pre \in {<<>>} \cup
                {<<DriveResult("1", NameOf["1"], FolderMime, {RootId}, o, None)>>
                     : o \in Emails},
        name \in ListedNames, mimeType \in MimeTypes,
        parents \in {{"root"}, {RootId}, {"1"}},
        owner \in Emails, modifier \in Emails \cup {None}}

\* _build_drive has fetched the root, made the User that owns it (the
\* first User object, kept in self.owner and not in the registry), and
\* fetched a page of results.
InitListing ==
    /\ NoMigration
    /\ side = "drive"
    /\ root = DriveItem(RootId, NameOf[RootId], {}, PATH_ROOT)
    /\ self_folders = <<>>
    /\ self_files = <<>>
    /\ stack = <<>>
    /\ phase = "listing"
    /\ first = NoFirst
    /\ users = {}
    /\ \E results \in DriveResponses :
          call = [op |-> "_build_drive", results |-> results, done |-> 0,
                  made |-> 1]

\* The last-modifying user _build_drive gives a node: a new User when the
\* result names one, None otherwise (line 669).
modified_by(result, obj) ==
    IF result.lastModifyingUser # None
    THEN User(DisplayName[result.lastModifyingUser],
              result.lastModifyingUser, obj)
    ELSE NoUser

\* _build_drive, lines 657-698: the next result becomes a Folder or a
\* File, made with the name and the parents of the result, a new User as
\* its owner and a new User or None as its last modifier; both users go
\* through add_user; after the last one build_drive goes on to
\* _generate_paths.
BuildResult ==
    /\ phase = "listing"
    /\ LET result == call.results[call.done + 1]
           owner == User(DisplayName[result.owner], result.owner,
                         call.made + 1)
           modifier == modified_by(result, call.made + 2)
           people == [owner |-> owner, last_modified_by |-> modifier]
       IN  /\ users' = IF result.lastModifyingUser # None
                       THEN add_user(add_user(users, owner), modifier)
                       ELSE add_user(users, owner)
           /\ call' = [call EXCEPT
                          !.done = @ + 1,
                          !.made = IF result.lastModifyingUser # None
                                   THEN @ + 2 ELSE @ + 1]
           /\ IF result.mimeType = FolderMime
              THEN /\ self_folders' =
                        Append(self_folders,
                               DriveItem(result.id, result.name,
                                         result.parents, NoPath) @@ people)
                   /\ UNCHANGED self_files
              ELSE /\ self_files' =
                        Append(self_files,
                               DriveItem(result.id, result.name,
                                         result.parents, NoPath)
                                   @@ people
                                   @@ [mime_type |-> result.mimeType])
                   /\ UNCHANGED self_folders
    /\ phase' = IF call.done + 1 = Len(call.results) THEN "listed" ELSE "listing"
    /\ UNCHANGED <<side, root, stack, first>>
    /\ UNCHANGED migration

NextListing ==
    BuildResult \/ DriveGeneratePaths \/ DrivePathFolder \/ DriveReturn

SpecListing == InitListing /\ [][NextListing]_vars

\* The extensions recognized for a rich-document mime type, the canonical
\* one first; none for any other type.
ExtensionsOf(mimeType) ==
    CASE mimeType = DocumentMime ->
             <<<<".", "d", "o", "c", "x">>, <<".", "d", "o", "c">>>>
      [] mimeType = SpreadsheetMime ->
             <<<<".", "x", "l", "s", "x">>, <<".", "x", "l", "s">>>>
      [] mimeType = PresentationMime ->
             <<<<".", "p", "p", "t", "x">>, <<".", "p", "p", "t">>>>
      [] OTHER -> <<>>

\* The node name extension repair asks for.
Repaired(name, mimeType) ==
    LET exts == ExtensionsOf(mimeType)
    IN  IF exts = <<>> \/ \E i \in 1..Len(exts) : endswith(name, exts[i])
        THEN name
        ELSE name \o exts[1]

\* C19: a file of a rich-document type whose name lacks an extension of
\* that type has the canonical extension appended to the name its path is
\* built from; any other file keeps its name.
C19_ExtensionRepair ==
    phase = "built" =>
        \A i \in 1..Len(self_files) :
            LET file == self_files[i]
                result == call.results[Len(call.results)]
                name == Repaired(result.name, result.mimeType)
            IN  /\ file.name = name
                /\ \A p \in ParentsOf(file) :
                       p.path # NoPath => file.path = p.path \o Slash \o name

Made ==
    {self_folders[i] : i \in 1..Len(self_folders)}
        \cup {self_files[i] : i \in 1..Len(self_files)}

\* The User objects attached to the nodes of the hierarchy, as owner or as
\* last modifier.
AttachedUsers ==
    {n.owner : n \in Made} \cup ({n.last_modified_by : n \in Made} \ {NoUser})

\* C21: the registry never holds two users with the same email, and the
\* owner or last modifier attached to any two nodes with equal emails is
\* one and the same User object, the one the registry holds.
C21_UserRegistry ==
    side = "drive" /\ call.op = "_build_drive" =>
        /\ \A u, v \in users : u.email = v.email => u = v
        /\ \A u, v \in AttachedUsers :
              u.email = v.email => u = v /\ u \in users

\* C22: a node made from a result without a last-modifying user has its
\* owner as its last modifier, so every file has a last-modifying-user
\* name for the metadata payload.
C22_ModifierFallsBackToOwner ==
    side = "drive" /\ call.op = "_build_drive" =>
        \A n \in Made :
            /\ n.last_modified_by # NoUser
            /\ \A i \in 1..Len(call.results) :
                  /\ call.results[i].id = n.id
                  /\ call.results[i].lastModifyingUser = None
                  => n.last_modified_by.email = n.owner.email

\* ------------------------------------------------------------ parse_path
\* A reference to a node of the Drive: the root, or a position of
\* self.folders or of self.files.
Ref(kind, item) == [kind |-> kind, item |-> item]

RootRef == Ref("root", 0)

Deref(ref) ==
    CASE ref.kind = "root" -> root
      [] ref.kind = "folder" -> self_folders[ref.item]
      [] ref.kind = "file" -> self_files[ref.item]

\* parse_path returns None; it never returns an empty list (line 257).
NoObjects == <<>>

\* parse_path, lines 231-254: one round of the loop over path_list.  The
\* first folder under curr_item with the name of the segment becomes
\* curr_item and joins the list; then the first file under (the new)
\* curr_item with the same name does.
ParseSegment(walk, item) ==
    LET j == Least({k \in 1..Len(self_folders) :
                      /\ IdIn(Deref(walk.curr_item).id, self_folders[k].parents)
                      /\ self_folders[k].name = item})
        afterFolders ==
            IF j = 0 THEN walk
            ELSE [curr_item |-> Ref("folder", j),
                  path_objects |-> Append(walk.path_objects, Ref("folder", j))]
        i == Least({k \in 1..Len(self_files) :
                      /\ IdIn(Deref(afterFolders.curr_item).id,
                              self_files[k].parents)
                      /\ self_files[k].name = item})
    IN  IF i = 0 THEN afterFolders
        ELSE [curr_item |-> Ref("file", i),
              path_objects |-> Append(afterFolders.path_objects, Ref("file", i))]

RECURSIVE ParseSegments(_, _)
ParseSegments(walk, path_list) ==
    IF path_list = <<>> THEN walk
    ELSE ParseSegments(ParseSegment(walk, Head(path_list)), Tail(path_list))

\* Drive.parse_path: the objects found along the segments of the path.
parse_path(path) ==
    IF ~contains(path, PATH_ROOT) THEN NoObjects
    ELSE IF path = PATH_ROOT THEN <<RootRef>>
    ELSE LET path_list == split(replace(path, PATH_ROOT, <<>>))
             path_objects ==
                 ParseSegments([curr_item |-> RootRef, path_objects |-> <<>>],
                               path_list).path_objects
         IN  IF \/ ~\E k \in 1..Len(path_objects) :
                       Deref(path_objects[k]).name = path_list[Len(path_list)]
                \/ Len(path_objects) = 0
             THEN NoObjects
             ELSE path_objects

\* -------------------------------------------------------------- printing
\* A printed line: the depth of its indentation and its text.
Line(depth, text) == [depth |-> depth, text |-> text]

\* The paths a print may be asked to start at: those of LookupPaths, one
\* through a missing folder to the name of a folder of the root, and one
\* below that folder.
StartPaths ==
    LookupPaths \cup {PATH_ROOT \o Slash \o <<"q">> \o Slash \o NameOf["1"],
                      PATH_ROOT \o Slash \o NameOf["1"] \o Slash \o <<"q">>}

\* print_drive, lines 335-363: the line of curr_folder, then one line for
\* every file that has curr_folder among its parents (its name in verbose
\* mode, its path otherwise).
PrintedFolder(curr_folder, depth, verbose) ==
    LET mine == SelectSeq(self_files,
                          LAMBDA file : IdIn(curr_folder.id, file.parents))
    IN  <<Line(depth, curr_folder.name)>> \o
        [i \in 1..Len(mine) |->
            Line(depth + 1, IF verbose THEN mine[i].name ELSE mine[i].path)]

\* print_drive, lines 366-371: the next folder the loop of the top call
\* finds with curr_folder among its parents, or 0.
PrintNextChild ==
    Least({j \in Top.next..Len(self_folders) :
              /\ self_folders[j].parents # {}
              /\ IdIn(Deref(Top.item).id, self_folders[j].parents)})

\* print_drive called without curr_folder (lines 326-333 and the first
\* folder's lines): parse_path gives the objects of the path; without
\* them the process exits, otherwise the last one is printed with its
\* files.
PrintDrive(base_folder_path, verbose) ==
    /\ side = "drive"
    /\ phase = "built"
    /\ call = NoCall
    /\ LET path_objects == parse_path(base_folder_path)
           made == [op |-> "print_drive",
                    base_folder_path |-> base_folder_path,
                    verbose |-> verbose, path_objects |-> path_objects,
                    lines |-> <<>>]
       IN  IF path_objects = NoObjects
           THEN /\ call' = made
                /\ phase' = "SystemExit"
                /\ UNCHANGED stack
           ELSE LET curr_folder == path_objects[Len(path_objects)]
                IN  /\ call' = [made EXCEPT !.lines =
                                   PrintedFolder(Deref(curr_folder), 0, verbose)]
                    /\ stack' = <<Frame(curr_folder, 1)>>
                    /\ phase' = "print"
    /\ UNCHANGED <<side, root, self_folders, self_files, first>>
    /\ UNCHANGED migration
    /\ UNCHANGED users

\* print_drive, lines 366-371: the loop reaches a folder with curr_folder
\* among its parents and print_drive calls itself on it, which prints
\* the folder and its files.  The call fails with RecursionError when
\* the stack is full.
PrintDriveFolder ==
    /\ side = "drive"
    /\ phase = "print"
    /\ PrintNextChild # 0
    /\ LET j == PrintNextChild
       IN  IF Len(stack) >= RecursionLimit
           THEN /\ phase' = "RecursionError"
                /\ UNCHANGED <<stack, call>>
           ELSE /\ stack' = [stack EXCEPT ![Len(stack)].next = j + 1]
                                \o <<Frame(Ref("folder", j), 1)>>
                /\ call' = [call EXCEPT !.lines =
                               @ \o PrintedFolder(self_folders[j], Len(stack),
                                                  call.verbose)]
                /\ UNCHANGED phase
    /\ UNCHANGED <<side, root, self_folders, self_files, first>>
    /\ UNCHANGED migration
    /\ UNCHANGED users

\* print_drive: the loop over the folders ends and the call returns.
PrintDriveReturn ==
    /\ side = "drive"
    /\ phase = "print"
    /\ PrintNextChild = 0
    /\ stack' = SubSeq(stack, 1, Len(stack) - 1)
    /\ phase' = IF Len(stack) = 1 THEN "printed" ELSE "print"
    /\ UNCHANGED <<side, root, self_folders, self_files, first, call>>
    /\ UNCHANGED migration
    /\ UNCHANGED users

\* _print_folder, lines 357-361: the line of the folder, then one line
\* for every file whose parent is the folder.
PrintedBoxFolder(j, depth) ==
    LET Text(node) == IF PathSet(node.path) THEN node.path ELSE node.name
        mine == SelectSeq(self_files, LAMBDA file : file.parent = j)
    IN  <<Line(depth, Text(self_folders[j]))>> \o
        [i \in 1..Len(mine) |-> Line(depth + 1, Text(mine[i]))]

\* _print_folder, lines 363-365: the next folder whose parent is the
\* folder of the top call, or 0.
PrintNextSubfolder ==
    Least({j \in Top.next..Len(self_folders) :
              self_folders[j].parent = Top.item})

\* print_box: _print_folder on the first folder with the base path (the
\* path prefix when none is given), or the line that none was found.
PrintBox(base_folder_path) ==
    /\ side = "box"
    /\ phase = "built"
    /\ call = NoCall
    /\ LET base == IF base_folder_path = NoPath THEN PATH_ROOT
                   ELSE base_folder_path
           j == first_via_path(self_folders, base)
           made == [op |-> "print_box", base_folder_path |-> base_folder_path,
                    verbose |-> FALSE, path_objects |-> NoObjects,
                    lines |-> <<>>]
       IN  IF j = 0
           THEN /\ call' = [made EXCEPT !.lines =
                               <<Line(0, <<"Failed to find a folder">>)>>]
                /\ phase' = "printed"
                /\ UNCHANGED stack
           ELSE /\ call' = [made EXCEPT !.lines = PrintedBoxFolder(j, 0)]
                /\ stack' = <<Frame(j, 1)>>
                /\ phase' = "print"
    /\ UNCHANGED <<side, root, self_folders, self_files, first>>
    /\ UNCHANGED migration
    /\ UNCHANGED users

\* _print_folder calls itself on the next subfolder.
PrintBoxFolder ==
    /\ side = "box"
    /\ phase = "print"
    /\ PrintNextSubfolder # 0
    /\ LET j == PrintNextSubfolder
       IN  IF Len(stack) >= RecursionLimit
           THEN /\ phase' = "RecursionError"
                /\ UNCHANGED <<stack, call>>
           ELSE /\ stack' = [stack EXCEPT ![Len(stack)].next = j + 1]
                                \o <<Frame(j, 1)>>
                /\ call' = [call EXCEPT !.lines =
                               @ \o PrintedBoxFolder(j, Len(stack))]
                /\ UNCHANGED phase
    /\ UNCHANGED <<side, root, self_folders, self_files, first>>
    /\ UNCHANGED migration
    /\ UNCHANGED users

\* _print_folder: the loop over the folders ends and the call returns.
PrintBoxReturn ==
    /\ side = "box"
    /\ phase = "print"
    /\ PrintNextSubfolder = 0
    /\ stack' = SubSeq(stack, 1, Len(stack) - 1)
    /\ phase' = IF Len(stack) = 1 THEN "printed" ELSE "print"
    /\ UNCHANGED <<side, root, self_folders, self_files, first, call>>
    /\ UNCHANGED migration
    /\ UNCHANGED users

NextPrint ==
    \/ BoxMapRoot \/ BoxMapChild \/ BoxMapReturn \/ BoxMapFiles
    \/ DriveGeneratePaths \/ DrivePathFolder \/ DriveReturn
    \/ \E path \in StartPaths, verbose \in BOOLEAN : PrintDrive(path, verbose)
    \/ PrintDriveFolder \/ PrintDriveReturn
    \/ \E path \in StartPaths \cup {NoPath} : PrintBox(path)
    \/ PrintBoxFolder \/ PrintBoxReturn

SpecPrint == InitBuild /\ [][NextPrint]_vars

\* C23: on every built hierarchy a print started at an existing folder
\* produces finitely many lines and returns: it never runs out of stack.
C23_PrintingTerminates ==
    call # NoCall /\ call.op \in {"print_drive", "print_box"}
        => phase # "RecursionError"

\* C28: when parse_path returns objects, they are the chain of nodes from
\* the root along the segments of the path and the last one has the path
\* asked for; for a path that names no node it returns nothing.
C28_ParsePathSound ==
    call # NoCall /\ call.op = "print_drive" =>
        LET path_objects == call.path_objects
            last == Deref(path_objects[Len(path_objects)])
        IN  /\ path_objects # NoObjects =>
                  last.path = call.base_folder_path
            /\ (\A n \in Nodes : n.path # call.base_folder_path) =>
                  path_objects = NoObjects

\* ------------------------------------------------- build step properties
\* C24: the tree build ends for every listing, also one with a folder
\* that names itself or the folder being expanded as its parent: the
\* recursion never runs out of stack and no folder is made its own child.
C24_BuildTerminates ==
    /\ phase # "RecursionError"
    /\ side = "box" =>
          \A j \in 1..Len(self_folders) : self_folders[j].parent # j

\* C25: in every state of a build, each folder of the listing that has a
\* path has a parent that has a path (the root is the only folder with a
\* path and no parent).
C25_ParentBeforeChild ==
    \A i \in 1..Len(Listed) :
        PathSet(Listed[i].path) =>
            \E p \in ParentsOf(Listed[i]) : PathSet(p.path)

\* C26: within one build, a step leaves the path of every folder and of
\* every file that already has one as it is.
C26_PathSetAtMostOnce ==
    [][phase' # "listed" =>
          /\ \A i \in 1..Len(self_folders) :
                PathSet(self_folders[i].path) =>
                    self_folders'[i].path = self_folders[i].path
          /\ \A i \in 1..Len(self_files) :
                PathSet(self_files[i].path) =>
                    self_files'[i].path = self_files[i].path]_vars

\* --------------------------------------------------- migration accounting
\* The source files that have a path, and those of them for which the
\* destination holds a file at that path.
WithPath == {d \in DOMAIN drive_files : Truthy(drive_files[d].path)}

Found ==
    {d \in WithPath : get_file_via_path(box_files, drive_files[d].path) # NoFile}

\* C27: when migrate_metadata returns, every source file with a path is
\* in exactly one of the matched, existing-metadata and source-missed
\* lists, and the destination-missed list has as many entries as there
\* are destination files with a path, less the source files that matched
\* a destination file, plus the duplicates.
C27_Conservation ==
    pc = "done" =>
        /\ \A p \in Paths :
              Count(matched_files, p) + Count(existing_metadata_files, p)
                  + Count(drive_missed_files, p) = NDrive(p)
        /\ Len(matched_files) + Len(existing_metadata_files)
               + Len(drive_missed_files) = Cardinality(WithPath)
        /\ Len(box_missed_files) =
               Len(BoxPaths(box_files)) - Cardinality(Found)
                   + Len(duplicate_files)

\* A real run has returned with a duplicate, a path only the destination
\* has and entries in the existing-metadata list.
C27_Witness ==
    /\ pc = "done"
    /\ ~test_only
    /\ duplicate_files # <<>>
    /\ box_missed_files # <<>>
    /\ existing_metadata_files # <<>>

\* The source file a destination file gets its metadata from when the
\* source files are taken in ascending order: the first one matched to it.
FirstMatch(b) ==
    Least({d \in Found :
              get_file_via_path(box_files, drive_files[d].path).id = b})

\* C30: a real run on a fresh store that meets no remote failure ends
\* with the same lists (as multisets) and the same stored metadata for
\* every order in which the source files are taken: those of the run that
\* takes them in ascending order.
C30_Deterministic ==
    pc = "done" /\ ~test_only /\ run = 1 /\ ~write_failed =>
        /\ \A p \in Paths :
              /\ Count(matched_files, p) = 0
              /\ Count(existing_metadata_files, p) =
                     IF NBox(p) > 0 THEN NDrive(p) ELSE 0
              /\ Count(drive_missed_files, p) =
                     IF NBox(p) > 0 THEN 0 ELSE NDrive(p)
              /\ Count(box_missed_files, p) =
                     IF NBox(p) > NDrive(p) THEN NBox(p) - NDrive(p) ELSE 0
              /\ Count(duplicate_files, p) =
                     IF NBox(p) > 0 /\ NDrive(p) > NBox(p)
                     THEN NDrive(p) - NBox(p) ELSE 0
        /\ \A b \in 1..Len(box_files) :
              metadata[b] # NoInstance => metadata[b] = Payload(FirstMatch(b))

\* ---------------------------------------------------------- update_drive
\* The built hierarchy is the source Drive (src_drive); the destination
\* Drive (self) has the same root path, PATH_ROOT.  Remote calls succeed.

\* update_info(path): with the path of the destination root the body is
\* skipped and the return statement reads dest_item, which was never
\* assigned: UnboundLocalError.  With any other path it returns (a
\* message, or None when the item is missing on either side).
update_info_raises(path) == path = PATH_ROOT

\* update_drive, lines 410-425: update_info is called for every file with
\* a path that has curr_folder among its parents, then for curr_folder.
UpdatedIn(curr_folder) ==
    {<<self_files[i].path, TRUE>> :
        i \in {k \in 1..Len(self_files) :
                  /\ PathSet(self_files[k].path)
                  /\ IdIn(curr_folder.id, self_files[k].parents)}}
        \cup {<<curr_folder.path, FALSE>>}

\* update_drive, lines 431-437: the next folder with curr_folder among its
\* parents, or 0.
UpdateNextChild ==
    Least({j \in Top.next..Len(self_folders) :
              IdIn(Deref(Top.item).id, self_folders[j].parents)})

\* update_drive called without curr_folder: the root when no base path or
\* the root path is given, else the folder at the path (the process exits
\* when there is none); then the files of the folder and the folder
\* itself are updated.
UpdateDrive(base_folder_path) ==
    /\ side = "drive"
    /\ phase = "built"
    /\ call = NoCall
    /\ LET j == first_via_path(self_folders, base_folder_path)
           at_root == base_folder_path = NoPath \/ base_folder_path = root.path
           curr_folder == IF at_root THEN RootRef ELSE Ref("folder", j)
           made == [op |-> "update_drive",
                    base_folder_path |-> base_folder_path,
                    update_info |-> {}]
       IN  IF ~at_root /\ j = 0
           THEN /\ call' = made
                /\ phase' = "SystemExit"
                /\ UNCHANGED stack
           ELSE /\ call' = [made EXCEPT
                               !.update_info = UpdatedIn(Deref(curr_folder))]
                /\ IF update_info_raises(Deref(curr_folder).path)
                   THEN /\ phase' = "UnboundLocalError"
                        /\ UNCHANGED stack
                   ELSE /\ phase' = "update"
                        /\ stack' = <<Frame(curr_folder, 1)>>
    /\ UNCHANGED <<side, root, self_folders, self_files, first>>
    /\ UNCHANGED migration
    /\ UNCHANGED users

\* update_drive, lines 431-437: the loop reaches a folder with curr_folder
\* among its parents and update_drive calls itself on it, which updates
\* its files and the folder.  The call fails with RecursionError when
\* the stack is full.
UpdateDriveFolder ==
    /\ side = "drive"
    /\ phase = "update"
    /\ UpdateNextChild # 0
    /\ LET j == UpdateNextChild
       IN  IF Len(stack) >= RecursionLimit
           THEN /\ phase' = "RecursionError"
                /\ UNCHANGED <<stack, call>>
           ELSE /\ call' = [call EXCEPT
                               !.update_info = @ \cup UpdatedIn(self_folders[j])]
                /\ IF update_info_raises(self_folders[j].path)
                   THEN /\ phase' = "UnboundLocalError"
                        /\ UNCHANGED stack
                   ELSE /\ stack' = [stack EXCEPT ![Len(stack)].next = j + 1]
                                        \o <<Frame(Ref("folder", j), 1)>>
                        /\ UNCHANGED phase
    /\ UNCHANGED <<side, root, self_folders, self_files, first>>
    /\ UNCHANGED migration
    /\ UNCHANGED users

\* update_drive: the loop over the folders ends and the call returns.
UpdateDriveReturn ==
    /\ side = "drive"
    /\ phase = "update"
    /\ UpdateNextChild = 0
    /\ stack' = SubSeq(stack, 1, Len(stack) - 1)
    /\ phase' = IF Len(stack) = 1 THEN "updated" ELSE "update"
    /\ UNCHANGED <<side, root, self_folders, self_files, first, call>>
    /\ UNCHANGED migration
    /\ UNCHANGED users

\* The source Drive has been listed.
InitUpdate == InitBuild /\ side = "drive"

NextUpdate ==
    \/ DriveGeneratePaths \/ DrivePathFolder \/ DriveReturn
    \/ \E path \in StartPaths \cup {NoPath} : UpdateDrive(path)
    \/ UpdateDriveFolder \/ UpdateDriveReturn

SpecUpdate == InitUpdate /\ [][NextUpdate]_vars

\* The tool is one sequential process: it takes its next step whenever it
\* has one.
SpecUpdateFair == SpecUpdate /\ WF_vars(NextUpdate)

\* update_drive was started at the source root.
StartedAtRoot ==
    /\ call # NoCall
    /\ call.op = "update_drive"
    /\ call.base_folder_path \in {NoPath, PATH_ROOT}

\* C29: update_drive started at the source root runs to completion: it
\* returns, having called update_info for every source file with a path
\* and for every folder with a path, the root included.
C29_UpdateCompletes ==
    StartedAtRoot ~>
        /\ phase = "updated"
        /\ \A i \in 1..Len(self_files) :
              PathSet(self_files[i].path) =>
                  <<self_files[i].path, TRUE>> \in call.update_info
        /\ \A i \in 1..Len(self_folders) :
              PathSet(self_folders[i].path) =>
                  <<self_folders[i].path, FALSE>> \in call.update_info
        /\ <<PATH_ROOT, FALSE>> \in call.update_info

====
